---------------------------- MODULE Spec2Model ----------------------------
(***************************************************************************)
(* gitcontrib: per-author commit counts and line changes of a git          *)
(* repository, parsed from the text that git prints, and the summary       *)
(* report composed from them (gitcontrib.go, cmd.go).                      *)
(*                                                                         *)
(* A string is a sequence of one-character strings, a captured output is   *)
(* the sequence of the lines that bufio.Scanner yields from it.            *)
(***************************************************************************)
EXTENDS Integers, Sequences, FiniteSets, TLC

(***************************************************************************)
(* Bounds of the inputs the parsers are applied to.                        *)
(***************************************************************************)
MaxBranchLines == 3

MaxShortlogLines == 3

MaxNumstatLines == 4

\* the number of calls in a sequence of calls of the aggregators
MaxCalls == 3

(***************************************************************************)
(* Characters and the string functions of the Go library the code calls.   *)
(***************************************************************************)
Letter ==
    {"a","b","c","d","e","f","g","h","i","j","k","l","m",
     "n","o","p","q","r","s","t","u","v","w","x","y","z",
     "A","B","C","D","E","F","G","H","I","J","K","L","M",
     "N","O","P","Q","R","S","T","U","V","W","X","Y","Z"}

Digit == {"0","1","2","3","4","5","6","7","8","9"}

DigitVal(c) ==
    CASE c = "0" -> 0 [] c = "1" -> 1 [] c = "2" -> 2 [] c = "3" -> 3
      [] c = "4" -> 4 [] c = "5" -> 5 [] c = "6" -> 6 [] c = "7" -> 7
      [] c = "8" -> 8 [] c = "9" -> 9

IsSpace(c) == c \in {" ", "\t", "\n", "\r"}

\* strings.TrimSpace, first half: the leading white space removed
RECURSIVE TrimLeft(_)
TrimLeft(s) ==
    IF s # <<>> /\ IsSpace(Head(s)) THEN TrimLeft(Tail(s)) ELSE s

\* strings.TrimSpace, second half: the trailing white space removed
RECURSIVE TrimRight(_)
TrimRight(s) ==
    IF s # <<>> /\ IsSpace(s[Len(s)])
    THEN TrimRight(SubSeq(s, 1, Len(s) - 1))
    ELSE s

TrimSpace(s) == TrimRight(TrimLeft(s))

\* the length of the run of non-space characters s starts with
RECURSIVE TokenLen(_)
TokenLen(s) ==
    IF s = <<>> \/ IsSpace(Head(s)) THEN 0 ELSE 1 + TokenLen(Tail(s))

\* strings.Fields: the maximal runs of non-space characters, in order
RECURSIVE Fields(_)
Fields(s) ==
    IF s = <<>> THEN <<>>
    ELSE IF IsSpace(Head(s)) THEN Fields(Tail(s))
    ELSE <<SubSeq(s, 1, TokenLen(s))>>
             \o Fields(SubSeq(s, TokenLen(s) + 1, Len(s)))

\* strings.Join(fs, " ")
RECURSIVE Join(_)
Join(fs) ==
    IF fs = <<>> THEN <<>>
    ELSE IF Len(fs) = 1 THEN fs[1]
    ELSE fs[1] \o <<" ">> \o Join(Tail(fs))

\* the value of a sequence of decimal digits
RECURSIVE DigitsVal(_)
DigitsVal(ds) ==
    IF ds = <<>> THEN 0
    ELSE 10 * DigitsVal(SubSeq(ds, 1, Len(ds) - 1)) + DigitVal(ds[Len(ds)])

\* strconv.Atoi: an optional sign, then one or more decimal digits
Atoi(s) ==
    LET signed == s # <<>> /\ s[1] \in {"+", "-"}
        ds     == IF signed THEN Tail(s) ELSE s
    IN  IF ds = <<>> \/ \E i \in 1..Len(ds) : ds[i] \notin Digit
        THEN [ok |-> FALSE, val |-> 0]
        ELSE [ok |-> TRUE,
              val |-> IF signed /\ s[1] = "-" THEN 0 - DigitsVal(ds)
                      ELSE DigitsVal(ds)]

\* a Go map read m[k]: the zero value for a missing key
Lookup(m, k, zero) == IF k \in DOMAIN m THEN m[k] ELSE zero

\* a Go map write m[k] = v
Put(m, k, v) == (k :> v) @@ m

EmptyMap == <<>>

(***************************************************************************)
(* gitcontrib.go: the three parsers.  A call ends "ok" with its value,     *)
(* "error" with a nil value (the Go error return), or "panic" (an index    *)
(* or slice bound out of range, which ends the process).                   *)
(***************************************************************************)
Ok(v) == [status |-> "ok", val |-> v]

Panic == [status |-> "panic", val |-> <<>>]

Error == [status |-> "error", val |-> <<>>]

\* regexp.MatchString("^\\* *", line): an asterisk first, then any number
\* of spaces, none included; what follows is not looked at
MatchMarker(line) == line # <<>> /\ line[1] = "*"

\* extractCheckedOutBranch, the first matching line: strings.Fields(line)[1]
BranchOfLine(line) ==
    IF Len(Fields(line)) < 2 THEN Panic ELSE Ok(Fields(line)[2])

RECURSIVE extractCheckedOutBranch(_)
extractCheckedOutBranch(gitBranchOutput) ==
    IF gitBranchOutput = <<>> THEN Ok(<<>>)
    ELSE IF MatchMarker(Head(gitBranchOutput))
         THEN BranchOfLine(Head(gitBranchOutput))
         ELSE extractCheckedOutBranch(Tail(gitBranchOutput))

\* CommitsLine with the count added to the author's entry, not stored over it
CommitsLineAccumulate(authorMap, text) ==
    LET line   == TrimSpace(text)
        fields == Fields(line)
        name   == Join(Tail(fields))
    IN  IF fields = <<>> THEN Panic
        ELSE IF ~Atoi(fields[1]).ok THEN Error
        ELSE Ok(Put(authorMap, name,
                    Lookup(authorMap, name, 0) + Atoi(fields[1]).val))

\* CommitsLine with a line that has no count passed over
CommitsLineSkipBad(authorMap, text) ==
    LET line   == TrimSpace(text)
        fields == Fields(line)
    IN  IF fields = <<>> THEN Panic
        ELSE IF ~Atoi(fields[1]).ok THEN Ok(authorMap)
        ELSE Ok(Put(authorMap, Join(Tail(fields)), Atoi(fields[1]).val))

\* mapAuthorCommits, the body of the loop on one scanned line
CommitsLine(authorMap, text) ==
    LET line   == TrimSpace(text)
        fields == Fields(line)
    IN  IF fields = <<>> THEN Panic
        ELSE IF ~Atoi(fields[1]).ok THEN Error
        ELSE Ok(Put(authorMap, Join(Tail(fields)), Atoi(fields[1]).val))

RECURSIVE CommitsLoop(_, _)
CommitsLoop(authorMap, lines) ==
    IF lines = <<>> THEN Ok(authorMap)
    ELSE LET r == CommitsLine(authorMap, Head(lines))
         IN  IF r.status # "ok" THEN r ELSE CommitsLoop(r.val, Tail(lines))

mapAuthorCommits(shortlogOutput) == CommitsLoop(EmptyMap, shortlogOutput)

\* type LineChanges and its methods Add, Del, Sum
LineChanges(a, d) == [Additions |-> a, Deletions |-> d]

Add(lc, n) == [lc EXCEPT !.Additions = @ + n]

Del(lc, n) == [lc EXCEPT !.Deletions = @ + n]

Sum(lc) == lc.Additions + lc.Deletions

\* the state of the loop of parseLineChanges
Parser(m, a) == [authorMap |-> m, currentAuthor |-> a]

\* regexp.MatchString("^[a-zA-Z']", line)
MatchAuthor(line) == line # <<>> /\ line[1] \in Letter \cup {"'"}

\* HeaderLine without the test `if !ok`: a recurring author starts at zero
HeaderLineReset(st, line) ==
    IF line[1] = "'" /\ line[Len(line)] = "'"
    THEN IF Len(line) < 2 THEN Panic
         ELSE Ok(Parser(Put(st.authorMap, SubSeq(line, 2, Len(line) - 1),
                            LineChanges(0, 0)),
                        SubSeq(line, 2, Len(line) - 1)))
    ELSE Ok(Parser(Put(st.authorMap, line, LineChanges(0, 0)), line))

\* parseLineChanges, an author line: the quotes of --pretty='%aN' removed,
\* the author made current and entered in the map when new
HeaderLine(st, line) ==
    IF line[1] = "'" /\ line[Len(line)] = "'"
    THEN IF Len(line) < 2 THEN Panic   \* line[:0], then line[1:] of it
         ELSE LET name == SubSeq(line, 2, Len(line) - 1)
              IN  Ok(Parser(IF name \in DOMAIN st.authorMap THEN st.authorMap
                            ELSE Put(st.authorMap, name, LineChanges(0, 0)),
                            name))
    ELSE Ok(Parser(IF line \in DOMAIN st.authorMap THEN st.authorMap
                   ELSE Put(st.authorMap, line, LineChanges(0, 0)),
                   line))

\* ChangeLine without a.Del(dels): the deletions are lost
ChangeLineNoDel(st, line) ==
    LET fields == Fields(line)
        adds   == IF fields[1] # <<"-">> THEN Atoi(fields[1])
                  ELSE [ok |-> TRUE, val |-> 0]
        dels   == IF fields[2] # <<"-">> THEN Atoi(fields[2])
                  ELSE [ok |-> TRUE, val |-> 0]
        a      == Lookup(st.authorMap, st.currentAuthor, LineChanges(0, 0))
    IN  IF ~adds.ok THEN Error
        ELSE IF Len(fields) < 2 THEN Panic
        ELSE IF ~dels.ok THEN Error
        ELSE Ok(Parser(Put(st.authorMap, st.currentAuthor, Add(a, adds.val)),
                       st.currentAuthor))

\* ChangeLine with the errors of strconv.Atoi ignored: a field that is no
\* count adds nothing
ChangeLineIgnoreErr(st, line) ==
    LET fields == Fields(line)
        adds   == IF fields[1] # <<"-">> THEN Atoi(fields[1]).val ELSE 0
        dels   == IF fields[2] # <<"-">> THEN Atoi(fields[2]).val ELSE 0
        a      == Lookup(st.authorMap, st.currentAuthor, LineChanges(0, 0))
    IN  IF Len(fields) < 2 THEN Panic
        ELSE Ok(Parser(Put(st.authorMap, st.currentAuthor,
                           Del(Add(a, adds), dels)),
                       st.currentAuthor))

\* parseLineChanges, a line of counts: added to the current author's entry
ChangeLine(st, line) ==
    LET fields == Fields(line)
        adds   == IF fields[1] # <<"-">> THEN Atoi(fields[1])
                  ELSE [ok |-> TRUE, val |-> 0]
        dels   == IF fields[2] # <<"-">> THEN Atoi(fields[2])
                  ELSE [ok |-> TRUE, val |-> 0]
        a      == Lookup(st.authorMap, st.currentAuthor, LineChanges(0, 0))
    IN  IF ~adds.ok THEN Error
        ELSE IF Len(fields) < 2 THEN Panic
        ELSE IF ~dels.ok THEN Error
        ELSE Ok(Parser(Put(st.authorMap, st.currentAuthor,
                           Del(Add(a, adds.val), dels.val)),
                       st.currentAuthor))

\* ParseLine with a blank line ending the author's block: the current
\* author is cleared
ParseLineBlankEnds(st, text) ==
    LET line == TrimSpace(text)
    IN  IF line = <<>> THEN Ok(Parser(st.authorMap, <<>>))
        ELSE IF MatchAuthor(line) THEN HeaderLine(st, line)
        ELSE ChangeLine(st, line)

\* parseLineChanges, the body of the loop on one scanned line
ParseLine(st, text) ==
    LET line == TrimSpace(text)
    IN  IF line = <<>> THEN Ok(st)
        ELSE IF MatchAuthor(line) THEN HeaderLine(st, line)
        ELSE ChangeLine(st, line)

RECURSIVE ParseLoop(_, _)
ParseLoop(st, lines) ==
    IF lines = <<>> THEN Ok(st)
    ELSE LET r == ParseLine(st, Head(lines))
         IN  IF r.status # "ok" THEN r ELSE ParseLoop(r.val, Tail(lines))

parseLineChanges(gitOutput) ==
    LET r == ParseLoop(Parser(EmptyMap, <<>>), gitOutput)
    IN  IF r.status = "ok" THEN Ok(r.val.authorMap) ELSE r

(***************************************************************************)
(* cmd.go: the float64 arithmetic of the report.  A value is a signed      *)
(* fraction, an infinity or NaN; rounding is left out, the rules of        *)
(* IEEE 754 division by zero and of the signed zero are kept.              *)
(***************************************************************************)
Abs(i) == IF i < 0 THEN 0 - i ELSE i

Fin(s, n, d) == [kind |-> "fin", sign |-> s, num |-> n, den |-> d]

Inf(s) == [kind |-> "inf", sign |-> s, num |-> 1, den |-> 0]

NaN == [kind |-> "nan", sign |-> 1, num |-> 0, den |-> 0]

\* float64(i)
Float(i) == Fin(IF i < 0 THEN 0 - 1 ELSE 1, Abs(i), 1)

\* x / y on float64
FDiv(x, y) ==
    IF x.kind = "nan" \/ y.kind = "nan" THEN NaN
    ELSE IF x.kind = "inf"
         THEN IF y.kind = "inf" THEN NaN ELSE Inf(x.sign * y.sign)
    ELSE IF y.kind = "inf" THEN Fin(x.sign * y.sign, 0, 1)
    ELSE IF y.num = 0
         THEN IF x.num = 0 THEN NaN ELSE Inf(x.sign * y.sign)
    ELSE Fin(x.sign * y.sign, x.num * y.den, x.den * y.num)

\* commitTotal += v, over the keys of commitMap still to visit
RECURSIVE CommitTotalOver(_, _)
CommitTotalOver(cm, keys) ==
    IF keys = {} THEN 0
    ELSE LET k == CHOOSE x \in keys : TRUE
         IN  cm[k] + CommitTotalOver(cm, keys \ {k})

CommitTotal(cm) == CommitTotalOver(cm, DOMAIN cm)

\* lineTotal += v.Sum(), over the keys of lineChangesMap still to visit
RECURSIVE LineTotalOver(_, _)
LineTotalOver(lcm, keys) ==
    IF keys = {} THEN 0
    ELSE LET k == CHOOSE x \in keys : TRUE
         IN  Sum(lcm[k]) + LineTotalOver(lcm, keys \ {k})

\* LineTotal with v.Additions for v.Sum()
LineTotalAdditions(lcm) ==
    LineTotalOver([k \in DOMAIN lcm |-> LineChanges(lcm[k].Additions, 0)],
                  DOMAIN lcm)

LineTotal(lcm) == LineTotalOver(lcm, DOMAIN lcm)

LineRatio(linesum, total) == FDiv(Float(linesum), Float(total))

CommitRatio(commits, total) == FDiv(Float(commits), Float(total))

\* Granularity without the inversion: lines per commit
GranularityInverted(linesum, commits) ==
    FDiv(Float(linesum), Float(commits))

Granularity(linesum, commits) ==
    FDiv(Float(1), FDiv(Float(linesum), Float(commits)))

\* filepath.Base: the last element of the path, trailing separators removed
RECURSIVE StripSlashes(_)
StripSlashes(p) ==
    IF p # <<>> /\ p[Len(p)] = "/"
    THEN StripSlashes(SubSeq(p, 1, Len(p) - 1))
    ELSE p

RECURSIVE LastElement(_)
LastElement(p) ==
    IF p = <<>> \/ p[Len(p)] = "/" THEN <<>>
    ELSE LastElement(SubSeq(p, 1, Len(p) - 1)) \o <<p[Len(p)]>>

Base(p) ==
    IF p = <<>> THEN <<".">>
    ELSE IF StripSlashes(p) = <<>> THEN <<"/">>
    ELSE LastElement(StripSlashes(p))

\* one row of the report: the arguments of the Fprintf / Printf of a row
Row(repo, k, commits, v, lr, cr, g) ==
    [repo |-> repo, author |-> k, commits |-> commits,
     additions |-> v.Additions, deletions |-> v.Deletions,
     lineRatio |-> lr, commitRatio |-> cr, granularity |-> g]

(***************************************************************************)
(* What the external commands may print.                                   *)
(***************************************************************************)
SeqsUpTo(S, n) == UNION {[1..k -> S] : k \in 0..n}

\* lines of `git branch`
BranchLinePool ==
    {<<"*"," ","m">>,
     <<" "," ","d">>,
     <<"*","m">>,
     <<"*","m"," ","x">>,
     <<"*">>,
     <<"*"," "," ","b"," ","x">>,
     <<>>}

\* lines of `git shortlog -sn`
ShortlogLinePool ==
    {<<" "," ","2"," "," ","A">>,
     <<"1"," ","A">>,
     <<"3","\t","B"," "," ","C"," ">>,
     <<"x"," ","A">>,
     <<>>,
     <<"-","1"," ","A">>,
     <<"4">>}

\* lines of `git log --numstat --pretty='%aN'`
NumstatLinePool ==
    {<<"'","A","'">>,
     <<"B">>,
     <<>>,
     <<" ","\t">>,
     <<"1","\t","2","\t","f">>,
     <<" ","-","\t","-","\t","f">>,
     <<"1">>,
     <<"1","\t","x">>,
     <<"?">>,
     <<"'">>,
     <<"'","'">>,
     <<"-","1","\t","0","\t","f">>}

BranchTexts == SeqsUpTo(BranchLinePool, MaxBranchLines)

ShortlogTexts == SeqsUpTo(ShortlogLinePool, MaxShortlogLines)

NumstatTexts == SeqsUpTo(NumstatLinePool, MaxNumstatLines)

\* the outputs of the commands in a run of the summary commands
BranchOutputs ==
    {<<<<" "," ","a","s","d","a","s","d">>, <<"*"," ","m","a","i","n">>, <<" "," ","b","o","t","t","o","m","b","r","a","n","c","h">>>>,
     <<<<" "," ","m","a","i","n">>>>,
     <<>>,
     <<<<"*","m","a","i","n">>>>}

ShortlogOutputs ==
    {<<<<" "," "," "," ","4","2"," "," ","A">>, <<" "," "," "," "," ","3"," "," ","B">>>>,
     <<<<" "," "," "," "," ","1"," "," ","A">>>>,
     <<<<" "," "," "," "," ","2"," "," ","A">>, <<" "," "," "," "," ","0"," "," ","B">>>>,
     <<>>,
     <<<<" "," "," "," "," ","x"," "," ","A">>>>,
     <<<<" "," "," "," "," ","1"," "," ","A">>, <<>>>>}

NumstatOutputs ==
    {<<<<"'","A","'">>, <<>>, <<"1","0","0","\t","5","0","\t","f">>, <<>>, <<"'","B","'">>, <<>>, <<"1","0","\t","0","\t","f">>>>,
     <<<<"'","A","'">>, <<>>, <<"1","\t","2","\t","f">>>>,
     <<<<"'","A","'">>, <<>>, <<"-","\t","-","\t","f">>, <<"'","B","'">>, <<>>, <<"1","\t","1","\t","f">>>>,
     <<>>,
     <<<<"'","A","'">>, <<>>, <<"-","\t","-","\t","f">>>>,
     <<<<"'","A","'">>, <<>>, <<"1","\t","x","\t","f">>>>,
     <<<<"'","A","'">>, <<>>, <<"1">>>>}

RevParseOutputs ==
    {<<>>,
     <<"/","r","/","g","c","\n">>}

(***************************************************************************)
(* The state of one call of `summary` or `csv summary`.                    *)
(***************************************************************************)
VARIABLES
    cmd,             \* "summary" or "csv"
    pc,              \* the place of the call in its code
    out,             \* the output captured by the last Z.Out, as lines
    output,          \* getRepoDirName: the output of git rev-parse
    branch,          \* GitAuthorCommits: the checked-out branch
    commitMap,       \* Call: author -> commits
    lineChangesMap,  \* Call: author -> LineChanges
    printMap,        \* Call: the map the row loop ranges over
    commitTotal,
    lineTotal,
    commitRatioMap,
    lineRatioMap,
    granularityMap,
    reponame,
    w,               \* the tabwriter's buffer
    stdout,          \* what has been written to standard output
    invoked,         \* the external commands run so far, in order
    failedAt,        \* the pc at which the call failed, "" while it has not
    calls            \* the calls of the two aggregators made so far, in
                     \* order, each with its text and what it returned

vars == <<cmd, pc, out, output, branch, commitMap, lineChangesMap, printMap,
          commitTotal, lineTotal, commitRatioMap, lineRatioMap,
          granularityMap, reponame, w, stdout, invoked, failedAt, calls>>

data == <<branch, commitMap, lineChangesMap, printMap, commitTotal,
          lineTotal, commitRatioMap, lineRatioMap, granularityMap, reponame>>

NoOutput == [headers |-> 0, rows |-> {}, overall |-> {}]

\* one call of an aggregator: the function, its argument, what it returned
Called(fn, text, r) == [fn |-> fn, text |-> text, result |-> r]

Fresh ==
    /\ output = <<>>
    /\ branch = <<>>
    /\ commitMap = EmptyMap
    /\ lineChangesMap = EmptyMap
    /\ printMap = EmptyMap
    /\ commitTotal = 0
    /\ lineTotal = 0
    /\ commitRatioMap = EmptyMap
    /\ lineRatioMap = EmptyMap
    /\ granularityMap = EmptyMap
    /\ reponame = <<>>
    /\ w = NoOutput
    /\ stdout = NoOutput
    /\ failedAt = ""
    /\ calls = <<>>

Init ==
    /\ cmd \in {"summary", "csv"}
    /\ pc = "start"
    /\ out = <<>>
    /\ invoked = <<>>
    /\ Fresh

\* Fail as a returned error with the flush deferred: the buffer is written
FailFlushing(how) ==
    /\ pc' = how
    /\ failedAt' = pc
    /\ stdout' = w
    /\ UNCHANGED <<cmd, out, output, data, w, invoked>>

\* a step ends the process: log.Fatalf ("fatal"), a panic ("panic"), or
\* the error returned by Call ("error"); nothing buffered is flushed
Fail(how) ==
    /\ pc' = how
    /\ failedAt' = pc
    /\ UNCHANGED <<cmd, out, output, data, w, stdout, invoked>>

\* GitAuthorCommits (the AuthorCommits() that Call calls):
\* out = Z.Out("git", "branch")
InvokeGitBranch ==
    /\ pc = "start"
    /\ UNCHANGED calls
    /\ \E o \in BranchOutputs : out' = o
    /\ invoked' = Append(invoked, "branch")
    /\ pc' = "branch_out"
    /\ UNCHANGED <<cmd, output, data, w, stdout, failedAt>>

\* GitAuthorCommits: branch, err := extractCheckedOutBranch(out)
ExtractBranch ==
    /\ pc = "branch_out"
    /\ UNCHANGED calls
    /\ LET r == extractCheckedOutBranch(out)
       IN  IF r.status = "panic" THEN Fail("panic")
           ELSE IF r.status = "error" THEN Fail("fatal")
           ELSE /\ branch' = r.val
                /\ pc' = "have_branch"
                /\ UNCHANGED <<cmd, out, output, commitMap, lineChangesMap,
                               printMap, commitTotal, lineTotal,
                               commitRatioMap, lineRatioMap, granularityMap,
                               reponame, w, stdout, invoked, failedAt>>

\* GitAuthorCommits: out = Z.Out("git", "shortlog", "-sn", "--no-merges", branch)
InvokeShortlog ==
    /\ pc = "have_branch"
    /\ UNCHANGED calls
    /\ \E o \in ShortlogOutputs : out' = o
    /\ invoked' = Append(invoked, "shortlog")
    /\ pc' = "shortlog_out"
    /\ UNCHANGED <<cmd, output, data, w, stdout, failedAt>>

\* GitAuthorCommits: authorMap, err := mapAuthorCommits(out), returned to
\* Call as commitMap
MapCommits ==
    /\ pc = "shortlog_out"
    /\ calls' = Append(calls, Called("mapAuthorCommits", out, mapAuthorCommits(out)))
    /\ LET r == mapAuthorCommits(out)
       IN  IF r.status = "panic" THEN Fail("panic")
           ELSE IF r.status = "error" THEN Fail("fatal")
           ELSE /\ commitMap' = r.val
                /\ pc' = "have_commits"
                /\ UNCHANGED <<cmd, out, output, branch, lineChangesMap,
                               printMap, commitTotal, lineTotal,
                               commitRatioMap, lineRatioMap, granularityMap,
                               reponame, w, stdout, invoked, failedAt>>

\* MapLineChanges: out := Z.Out("git", "log", "--numstat", "--pretty='%aN'"),
\* called for lineChangesMap and again for the loop that prints the rows
InvokeNumstat ==
    /\ pc \in {"have_commits", "ready"}
    /\ UNCHANGED calls
    /\ \E o \in NumstatOutputs : out' = o
    /\ invoked' = Append(invoked, "numstat")
    /\ pc' = IF pc = "have_commits" THEN "numstat_out" ELSE "rows_out"
    /\ UNCHANGED <<cmd, output, data, w, stdout, failedAt>>

\* ParseNumstat with the map of the call before kept: authorMap is not made
\* anew at the start of parseLineChanges
ParseNumstatKeepingMap ==
    /\ pc \in {"numstat_out", "rows_out"}
    /\ LET s == ParseLoop(Parser(lineChangesMap, <<>>), out)
           r == IF s.status = "ok" THEN Ok(s.val.authorMap) ELSE s
       IN  /\ calls' = Append(calls, Called("parseLineChanges", out, r))
           /\ IF r.status = "panic" THEN Fail("panic")
              ELSE IF r.status = "error" THEN Fail("fatal")
              ELSE /\ lineChangesMap' =
                          IF pc = "numstat_out" THEN r.val ELSE lineChangesMap
                   /\ printMap' = IF pc = "rows_out" THEN r.val ELSE printMap
                   /\ pc' = IF pc = "numstat_out" THEN "have_lines"
                            ELSE "have_rows"
                   /\ UNCHANGED <<cmd, out, output, branch, commitMap,
                                  commitTotal, lineTotal, commitRatioMap,
                                  lineRatioMap, granularityMap, reponame, w,
                                  stdout, invoked, failedAt>>

\* MapLineChanges: authorMap, err := parseLineChanges(out)
ParseNumstat ==
    /\ pc \in {"numstat_out", "rows_out"}
    /\ calls' = Append(calls, Called("parseLineChanges", out, parseLineChanges(out)))
    /\ LET r == parseLineChanges(out)
       IN  IF r.status = "panic" THEN Fail("panic")
           ELSE IF r.status = "error" THEN Fail("fatal")
           ELSE /\ lineChangesMap' =
                       IF pc = "numstat_out" THEN r.val ELSE lineChangesMap
                /\ printMap' = IF pc = "rows_out" THEN r.val ELSE printMap
                /\ pc' = IF pc = "numstat_out" THEN "have_lines" ELSE "have_rows"
                /\ UNCHANGED <<cmd, out, output, branch, commitMap,
                               commitTotal, lineTotal, commitRatioMap,
                               lineRatioMap, granularityMap, reponame, w,
                               stdout, invoked, failedAt>>

\* Call: the totals and the three ratio maps, over the keys of lineChangesMap
Compute ==
    /\ pc = "have_lines"
    /\ UNCHANGED calls
    /\ commitTotal' = CommitTotal(commitMap)
    /\ lineTotal' = LineTotal(lineChangesMap)
    /\ lineRatioMap' =
           [k \in DOMAIN lineChangesMap |->
               LineRatio(Sum(lineChangesMap[k]), LineTotal(lineChangesMap))]
    /\ commitRatioMap' =
           [k \in DOMAIN lineChangesMap |->
               CommitRatio(Lookup(commitMap, k, 0), CommitTotal(commitMap))]
    /\ granularityMap' =
           [k \in DOMAIN lineChangesMap |->
               Granularity(Sum(lineChangesMap[k]), Lookup(commitMap, k, 0))]
    /\ pc' = "computed"
    /\ UNCHANGED <<cmd, out, output, branch, commitMap, lineChangesMap,
                   printMap, reponame, w, stdout, invoked, failedAt>>

\* ContributionSummaryCmd.Call: the two heading lines, into the tabwriter
TableHeader ==
    /\ pc = "computed"
    /\ UNCHANGED calls
    /\ cmd = "summary"
    /\ w' = [w EXCEPT !.headers = 2]
    /\ pc' = "ready"
    /\ UNCHANGED <<cmd, out, output, data, stdout, invoked, failedAt>>

\* getRepoDirName: output := Z.Out("git", "rev-parse", "--show-toplevel")
InvokeRevParse ==
    /\ pc = "computed"
    /\ UNCHANGED calls
    /\ cmd = "csv"
    /\ \E o \in RevParseOutputs : output' = o
    /\ invoked' = Append(invoked, "rev-parse")
    /\ pc' = "revparse_out"
    /\ UNCHANGED <<cmd, out, data, w, stdout, failedAt>>

\* getRepoDirName, and the error CsvContributionSummaryCmd.Call returns
GetRepoDirName ==
    /\ pc = "revparse_out"
    /\ UNCHANGED calls
    /\ IF output = <<>> THEN Fail("error")
       ELSE /\ reponame' = TrimSpace(Base(output))
            /\ pc' = "ready"
            /\ UNCHANGED <<cmd, out, output, branch, commitMap,
                           lineChangesMap, printMap, commitTotal, lineTotal,
                           commitRatioMap, lineRatioMap, granularityMap, w,
                           stdout, invoked, failedAt>>

\* the rows of the loop `for k, v := range MapLineChanges()`
Rows ==
    {Row(reponame, k, Lookup(commitMap, k, 0), printMap[k],
         Lookup(lineRatioMap, k, Float(0)),
         Lookup(commitRatioMap, k, Float(0)),
         Lookup(granularityMap, k, Float(0))) : k \in DOMAIN printMap}

\* the overall granularity line of `summary`
Overall == FDiv(Float(1), FDiv(Float(lineTotal), Float(commitTotal)))

\* Call, from the row loop to its return: `summary` writes the rows to the
\* tabwriter, flushes it and prints the overall granularity; `csv summary`
\* prints the rows
PrintReport ==
    /\ pc = "have_rows"
    /\ UNCHANGED calls
    /\ IF cmd = "summary"
       THEN /\ w' = NoOutput
            /\ stdout' = [headers |-> w.headers, rows |-> Rows,
                          overall |-> {Overall}]
       ELSE /\ w' = w
            /\ stdout' = [stdout EXCEPT !.rows = Rows]
    /\ pc' = "done"
    /\ UNCHANGED <<cmd, out, output, data, invoked, failedAt>>

Next ==
    \/ InvokeGitBranch
    \/ ExtractBranch
    \/ InvokeShortlog
    \/ MapCommits
    \/ InvokeNumstat
    \/ ParseNumstat
    \/ Compute
    \/ TableHeader
    \/ InvokeRevParse
    \/ GetRepoDirName
    \/ PrintReport

Spec == Init /\ [][Next]_vars

(***************************************************************************)
(* The parsers on their own: each applied once to every text of its        *)
(* bounded set.                                                            *)
(***************************************************************************)
InitParsers ==
    /\ cmd = "summary"
    /\ \/ pc = "branch_out" /\ out \in BranchTexts
       \/ pc = "shortlog_out" /\ out \in ShortlogTexts
       \/ pc = "numstat_out" /\ out \in NumstatTexts
    /\ invoked = <<>>
    /\ Fresh

NextParsers ==
    \/ ExtractBranch
    \/ MapCommits
    \/ ParseNumstat

SpecParsers == InitParsers /\ [][NextParsers]_vars

(***************************************************************************)
(* The two aggregators called again and again in one process, as the       *)
(* tests call them: each call is handed a text, whatever the calls before  *)
(* it returned; an error is returned to the caller, who goes on.           *)
(***************************************************************************)
InitCalls ==
    /\ cmd = "summary"
    /\ pc = "idle"
    /\ out = <<>>
    /\ invoked = <<>>
    /\ Fresh

\* the caller hands the next text to mapAuthorCommits or parseLineChanges
CallAggregator ==
    /\ pc \in {"idle", "have_commits", "have_lines", "fatal"}
    /\ Len(calls) < MaxCalls
    /\ \/ pc' = "shortlog_out" /\ out' \in ShortlogOutputs
       \/ pc' = "numstat_out" /\ out' \in NumstatOutputs
    /\ failedAt' = ""
    /\ UNCHANGED <<cmd, output, data, w, stdout, invoked, calls>>

NextCalls ==
    \/ CallAggregator
    \/ MapCommits
    \/ ParseNumstat

SpecCalls == InitCalls /\ [][NextCalls]_vars

(***************************************************************************)
(* What the claims speak of, stated on the text itself.                    *)
(***************************************************************************)
IsBlankLine(l) == \A i \in 1..Len(l) : IsSpace(l[i])

IsHeaderLine(l) ==
    ~IsBlankLine(l) /\ TrimLeft(l)[1] \in Letter \cup {"'"}

IsChangeLine(l) == ~IsBlankLine(l) /\ ~IsHeaderLine(l)

\* the author a header line names: the line, a pair of quotes around it removed
AuthorOf(l) ==
    LET t == TrimSpace(l)
    IN  IF Len(t) >= 2 /\ t[1] = "'" /\ t[Len(t)] = "'"
        THEN SubSeq(t, 2, Len(t) - 1)
        ELSE t

HeaderNames(text) ==
    {AuthorOf(text[i]) : i \in {j \in 1..Len(text) : IsHeaderLine(text[j])}}

\* the index of the last header line before line i, 0 when there is none
LastHeaderBefore(text, i) ==
    LET js == {j \in 1..(i - 1) : IsHeaderLine(text[j])}
    IN  IF js = {} THEN 0 ELSE CHOOSE j \in js : \A h \in js : h <= j

\* every change line follows some author header
HeadersFirst(text) ==
    \A i \in 1..Len(text) :
        IsChangeLine(text[i]) => LastHeaderBefore(text, i) > 0

\* field n of a change line as a count, "-" being zero
FieldValue(l, n) ==
    IF Fields(l)[n] = <<"-">> THEN 0 ELSE Atoi(Fields(l)[n]).val

\* the sum of field n over the change lines among the first i lines that
\* follow a header of author k
RECURSIVE FieldSumOf(_, _, _, _)
FieldSumOf(text, i, k, n) ==
    IF i = 0 THEN 0
    ELSE FieldSumOf(text, i - 1, k, n)
         + (IF /\ IsChangeLine(text[i])
               /\ LastHeaderBefore(text, i) > 0
               /\ AuthorOf(text[LastHeaderBefore(text, i)]) = k
            THEN FieldValue(text[i], n) ELSE 0)

\* the sum of fields 1 and 2 over all change lines among the first i lines
RECURSIVE TokenSum(_, _)
TokenSum(text, i) ==
    IF i = 0 THEN 0
    ELSE TokenSum(text, i - 1)
         + (IF IsChangeLine(text[i])
            THEN FieldValue(text[i], 1) + FieldValue(text[i], 2) ELSE 0)

\* the sum of the values of an integer-valued map
RECURSIVE TotalOf(_)
TotalOf(m) ==
    IF DOMAIN m = {} THEN 0
    ELSE LET k == CHOOSE x \in DOMAIN m : TRUE
         IN  m[k] + TotalOf([x \in DOMAIN m \ {k} |-> m[x]])

LineSums(lcm) ==
    [k \in DOMAIN lcm |-> lcm[k].Additions + lcm[k].Deletions]

(***************************************************************************)
(* C1: parseLineChanges returns, for each author named by a header, the    *)
(* sum of field 0 and the sum of field 1 over the change lines that follow *)
(* a header of that author, "-" counting as zero; the blocks of a          *)
(* recurring author are added up.  (The author with the empty name, header *)
(* '', is covered when every change line follows a header: see C10.)       *)
(***************************************************************************)
Thm_C1 ==
    pc = "have_lines" =>
        \A k \in HeaderNames(out) :
            (k # <<>> \/ HeadersFirst(out)) =>
                /\ k \in DOMAIN lineChangesMap
                /\ lineChangesMap[k].Additions
                       = FieldSumOf(out, Len(out), k, 1)
                /\ lineChangesMap[k].Deletions
                       = FieldSumOf(out, Len(out), k, 2)

\* author A in two blocks, each with counts
W_C1 ==
    /\ pc = "have_lines"
    /\ out = <<<<"'","A","'">>, <<"1","\t","2","\t","f">>,
               <<"'","A","'">>, <<"1","\t","2","\t","f">>>>
    /\ lineChangesMap = (<<"A">> :> LineChanges(2, 4))

(***************************************************************************)
(* C2: conservation.  After every prefix of a text that parseLineChanges   *)
(* processes successfully, the additions and deletions of all authors of   *)
(* the map add up to the sum of the first and second fields, other than    *)
(* "-", of the change lines read.                                          *)
(***************************************************************************)
Thm_C2 ==
    pc = "have_lines" =>
        /\ TotalOf(LineSums(lineChangesMap)) = TokenSum(out, Len(out))
        /\ \A n \in 0..Len(out) :
               LET r == ParseLoop(Parser(EmptyMap, <<>>), SubSeq(out, 1, n))
               IN  /\ r.status = "ok"
                   /\ TotalOf(LineSums(r.val.authorMap)) = TokenSum(out, n)

\* two authors, one with counts and one with a binary file ("-" fields)
W_C2 ==
    /\ pc = "have_lines"
    /\ out = <<<<"'","A","'">>, <<"1","\t","2","\t","f">>,
               <<"B">>, <<" ","-","\t","-","\t","f">>>>
    /\ DOMAIN lineChangesMap = {<<"A">>, <<"B">>}
    /\ TotalOf(LineSums(lineChangesMap)) = 3

(***************************************************************************)
(* C3: for a shortlog text of lines <integer> <name>, mapAuthorCommits     *)
(* returns a map whose keys are the names, white space around them removed *)
(* and runs of it inside them made one space, each with the integer of the *)
(* last line that carries the name.                                        *)
(***************************************************************************)
WellFormedShortlog(text) ==
    \A i \in 1..Len(text) :
        Len(Fields(text[i])) >= 2 /\ Atoi(Fields(text[i])[1]).ok

\* a string with its leading and trailing white space removed and every
\* other run of white space replaced by one space
RECURSIVE Collapse(_)
Collapse(s) ==
    IF s = <<>> THEN <<>>
    ELSE IF IsSpace(Head(s))
         THEN IF TrimLeft(s) = <<>> THEN <<>>
              ELSE <<" ">> \o Collapse(TrimLeft(s))
    ELSE <<Head(s)>> \o Collapse(Tail(s))

\* what follows the first token of the line
AfterCount(l) ==
    SubSeq(TrimLeft(l), TokenLen(TrimLeft(l)) + 1, Len(TrimLeft(l)))

NameOf(l) == Collapse(TrimLeft(AfterCount(l)))

CountOf(l) == Atoi(Fields(l)[1]).val

\* C3: a well-formed shortlog text is parsed without failure into the map
\* from each collapsed name to the count of the last line carrying it
Thm_C3 ==
    ((pc = "have_commits" \/ failedAt = "shortlog_out")
        /\ WellFormedShortlog(out)) =>
        /\ pc = "have_commits"
        /\ DOMAIN commitMap = {NameOf(out[i]) : i \in 1..Len(out)}
        /\ \A i \in 1..Len(out) :
               (\A j \in (i + 1)..Len(out) : NameOf(out[j]) # NameOf(out[i]))
                   => commitMap[NameOf(out[i])] = CountOf(out[i])

\* A on two lines with different counts, and a name with a run of spaces
W_C3 ==
    /\ pc = "have_commits"
    /\ out = <<<<" "," ","2"," "," ","A">>, <<"1"," ","A">>,
               <<"3","\t","B"," "," ","C"," ">>>>
    /\ commitMap = (<<"A">> :> 1) @@ (<<"B"," ","C">> :> 3)

(***************************************************************************)
(* C4: for a branch listing with exactly one line that starts with the     *)
(* asterisk, extractCheckedOutBranch returns the first token that follows  *)
(* the asterisk (and the spaces after it, if any) on that line.            *)
(***************************************************************************)
MarkedLines(text) == {i \in 1..Len(text) : MatchMarker(text[i])}

\* the first white-space separated token after the marker
TokenAfterMarker(l) == Fields(Tail(l))[1]

\* C4: with exactly one marked line, the call returns the first token after
\* the marker of that line
CE_C4 ==
    \A i \in MarkedLines(out) :
        (/\ pc = "have_branch" \/ failedAt = "branch_out"
         /\ MarkedLines(out) = {i}
         /\ Fields(Tail(out[i])) # <<>>) =>
            /\ pc = "have_branch"
            /\ branch = TokenAfterMarker(out[i])

(***************************************************************************)
(* C10: a change line read before any author header makes parseLineChanges *)
(* fail; it returns no map in which the counts of that line are dropped or *)
(* entered under some key.                                                 *)
(***************************************************************************)
\* C10: a map is returned only for a text whose change lines all follow a
\* header
CE_C10 == pc = "have_lines" => HeadersFirst(out)

(***************************************************************************)
(* C5: the authors for which the report has a row are the authors of the   *)
(* commit map together with the authors of the line-changes map.  Stated   *)
(* for a run in which the row loop read the same line changes as the       *)
(* computation did.                                                        *)
(***************************************************************************)
RowAuthors == {r.author : r \in stdout.rows}

\* C5: the row authors are the union of the keys of the two maps
CE_C5 ==
    (pc = "done" /\ branch # <<>> /\ printMap = lineChangesMap) =>
        RowAuthors = DOMAIN commitMap \cup DOMAIN lineChangesMap

(***************************************************************************)
(* C6: the totals and the ratios of the report, as exact fractions.        *)
(***************************************************************************)
\* the float x is the fraction n / d
IsFraction(x, n, d) ==
    d # 0 /\ x.kind = "fin" /\ x.sign * x.num * d = n * x.den

Computed == pc \in {"computed", "ready", "revparse_out", "rows_out",
                    "have_rows", "done"}

CommitsOf(k) == IF k \in DOMAIN commitMap THEN commitMap[k] ELSE 0

LineSumOf(k) == lineChangesMap[k].Additions + lineChangesMap[k].Deletions

TotalsAndShares ==
    /\ commitTotal = TotalOf(commitMap)
    /\ lineTotal = TotalOf(LineSums(lineChangesMap))
    /\ DOMAIN lineRatioMap = DOMAIN lineChangesMap
    /\ DOMAIN commitRatioMap = DOMAIN lineChangesMap
    /\ DOMAIN granularityMap = DOMAIN lineChangesMap
    /\ \A k \in DOMAIN lineChangesMap :
           /\ IsFraction(lineRatioMap[k], LineSumOf(k), lineTotal)
           /\ IsFraction(commitRatioMap[k], CommitsOf(k), commitTotal)
    /\ (pc = "done" /\ cmd = "summary") =>
           \E x \in stdout.overall : IsFraction(x, commitTotal, lineTotal)
    /\ pc = "done" =>
           \A r \in stdout.rows :
               r.author \in DOMAIN lineChangesMap =>
                   /\ r.commits = CommitsOf(r.author)
                   /\ r.lineRatio = lineRatioMap[r.author]
                   /\ r.commitRatio = commitRatioMap[r.author]
                   /\ r.granularity = granularityMap[r.author]

\* C6 as claimed: the granularity of every author of the line-changes map
\* is the fraction commits / line sum
CE_C6 ==
    (Computed /\ branch # <<>> /\ commitTotal # 0 /\ lineTotal # 0) =>
        /\ TotalsAndShares
        /\ \A k \in DOMAIN lineChangesMap :
               IsFraction(granularityMap[k], CommitsOf(k), LineSumOf(k))

\* C6 as amended: with non-zero totals, the totals are the sums, the line
\* ratio and the commit ratio of every author of the line-changes map are
\* the fractions lineSum/totalLineSum and commits/totalCommits, the overall
\* granularity is totalCommits/totalLineSum, and the granularity of an
\* author is commits/lineSum when the author's line sum is not zero; with
\* a line sum of zero it is an infinity (commits not zero) or NaN
Thm_C6 ==
    (Computed /\ commitTotal # 0 /\ lineTotal # 0) =>
        /\ TotalsAndShares
        /\ \A k \in DOMAIN lineChangesMap :
               IF LineSumOf(k) # 0
               THEN IsFraction(granularityMap[k], CommitsOf(k), LineSumOf(k))
               ELSE granularityMap[k].kind =
                        IF CommitsOf(k) # 0 THEN "inf" ELSE "nan"

\* the example of the claim: commits {A: 42, B: 3}, lines {A: (100, 50),
\* B: (10, 0)}
W_C6 ==
    /\ pc = "done"
    /\ cmd = "summary"
    /\ commitMap = (<<"A">> :> 42) @@ (<<"B">> :> 3)
    /\ lineChangesMap = (<<"A">> :> LineChanges(100, 50))
                            @@ (<<"B">> :> LineChanges(10, 0))
    /\ commitTotal = 45
    /\ lineTotal = 160
    /\ IsFraction(lineRatioMap[<<"A">>], 150, 160)
    /\ IsFraction(commitRatioMap[<<"A">>], 42, 45)
    /\ IsFraction(granularityMap[<<"A">>], 42, 150)
    /\ \E x \in stdout.overall : IsFraction(x, 45, 160)

(***************************************************************************)
(* C7: with the same authors in both maps, the line ratios add up to 1     *)
(* and the commit ratios add up to 1.                                      *)
(***************************************************************************)
\* x + y on the fractions, infinities and NaN of the model
FAdd(x, y) ==
    IF x.kind = "nan" \/ y.kind = "nan" THEN NaN
    ELSE IF x.kind = "inf"
         THEN IF y.kind = "inf" /\ y.sign # x.sign THEN NaN ELSE x
    ELSE IF y.kind = "inf" THEN y
    ELSE LET n == x.sign * x.num * y.den + y.sign * y.num * x.den
         IN  Fin(IF n < 0 THEN 0 - 1 ELSE 1, Abs(n), x.den * y.den)

RECURSIVE FSum(_)
FSum(m) ==
    IF DOMAIN m = {} THEN Float(0)
    ELSE LET k == CHOOSE x \in DOMAIN m : TRUE
         IN  FAdd(m[k], FSum([x \in DOMAIN m \ {k} |-> m[x]]))

RatiosSumToOne ==
    /\ IsFraction(FSum(lineRatioMap), 1, 1)
    /\ IsFraction(FSum(commitRatioMap), 1, 1)
    /\ TotalOf(LineSums(lineChangesMap)) = lineTotal
    /\ TotalOf([k \in DOMAIN lineChangesMap |-> CommitsOf(k)]) = commitTotal

\* C7 as claimed: with the same (non-empty) set of authors in both maps, the
\* line ratios sum to 1 and the commit ratios sum to 1
CE_C7 ==
    (Computed /\ branch # <<>>
        /\ DOMAIN commitMap = DOMAIN lineChangesMap
        /\ DOMAIN commitMap # {}) => RatiosSumToOne

\* C7 as amended: with the same authors in both maps and both totals
\* non-zero, the line ratios add up to 1 and the commit ratios add up to 1
Thm_C7 ==
    (Computed /\ DOMAIN commitMap = DOMAIN lineChangesMap
        /\ commitTotal # 0 /\ lineTotal # 0) => RatiosSumToOne

W_C7 ==
    /\ pc = "computed"
    /\ DOMAIN commitMap = {<<"A">>, <<"B">>}
    /\ DOMAIN lineChangesMap = {<<"A">>, <<"B">>}
    /\ commitTotal = 45
    /\ lineTotal = 160
    /\ IsFraction(lineRatioMap[<<"B">>], 10, 160)

(***************************************************************************)
(* C8: the first step that fails ends the call: no step follows it, no     *)
(* command is run again or after it, and nothing has been or is written;   *)
(* rows are on standard output only when the call is done, and then one    *)
(* for every author the row loop ranged over.                              *)
(***************************************************************************)
Failed == failedAt # ""

CompleteReport ==
    /\ RowAuthors = DOMAIN printMap
    /\ cmd = "summary" => stdout.headers = 2 /\ stdout.overall # {}

Count(seq, x) == Cardinality({i \in 1..Len(seq) : seq[i] = x})

\* C8: no step from a failed call; a failing step runs no command and
\* leaves standard output empty; output only when done, and then complete;
\* no command run more often than the code calls it
Thm_C8 ==
    [][/\ ~Failed
       /\ Failed' => /\ pc' \in {"fatal", "panic", "error"}
                     /\ invoked' = invoked
                     /\ stdout' = NoOutput
       /\ stdout'.rows # {} => pc' = "done" /\ CompleteReport'
       /\ stdout' # NoOutput => pc' = "done"
       /\ Count(invoked', "branch") <= 1
       /\ Count(invoked', "shortlog") <= 1
       /\ Count(invoked', "rev-parse") <= 1
       /\ Count(invoked', "numstat") <= 2]_vars

\* `summary` has buffered its heading, the numstat read for the rows fails
W_C8 ==
    /\ cmd = "summary"
    /\ failedAt = "rows_out"
    /\ pc = "fatal"
    /\ w.headers = 2
    /\ stdout = NoOutput
    /\ invoked = <<"branch", "shortlog", "numstat", "numstat">>

(***************************************************************************)
(* C9: when no line of the branch listing starts with the marker,          *)
(* extractCheckedOutBranch fails, and GitAuthorCommits does not go on to   *)
(* run git shortlog.                                                       *)
(***************************************************************************)
\* C9: without a marked line the extraction fails and shortlog is not run
CE_C9 ==
    [][/\ (pc = "branch_out" /\ MarkedLines(out) = {}) => Failed'
       /\ (pc = "have_branch" /\ MarkedLines(out) = {}) => invoked' = invoked
      ]_vars

(***************************************************************************)
(* C11: when parseLineChanges reads a change line whose first or second    *)
(* field is neither an integer nor "-", it stops there and returns an      *)
(* error and no map: the counts of the lines before it are not returned,   *)
(* the lines after it are not read.                                        *)
(***************************************************************************)
\* an optional sign, then one or more decimal digits
IsIntegerToken(t) ==
    LET d == IF t # <<>> /\ t[1] \in {"+", "-"} THEN Tail(t) ELSE t
    IN  d # <<>> /\ \A i \in 1..Len(d) : d[i] \in Digit

IsCount(t) == t = <<"-">> \/ IsIntegerToken(t)

\* a change line whose first field is no count, or whose first field is a
\* count and whose second field is there and is no count
BadChangeLine(l) ==
    /\ IsChangeLine(l)
    /\ \/ ~IsCount(Fields(l)[1])
       \/ Len(Fields(l)) >= 2 /\ ~IsCount(Fields(l)[2])

\* the first n lines of the text are read without failure
ReadsPrefix(text, n) ==
    ParseLoop(Parser(EmptyMap, <<>>), SubSeq(text, 1, n)).status = "ok"

\* C11: a text read as far as a change line with a field that is no count
\* makes the call fail with the error return and no map, whatever the lines
\* before it counted and whatever the lines after it are
Thm_C11 ==
    \A i \in 1..Len(out) :
        (/\ pc \in {"have_lines", "fatal", "panic"}
         /\ failedAt \in {"", "numstat_out"}
         /\ BadChangeLine(out[i])
         /\ ReadsPrefix(out, i - 1)) =>
            /\ pc = "fatal"
            /\ failedAt = "numstat_out"
            /\ lineChangesMap = EmptyMap
            /\ parseLineChanges(out) = Error
            /\ parseLineChanges(SubSeq(out, 1, i)) = Error

\* counts for A, then a second field that is no count, then a line on which
\* the parser would panic
W_C11 ==
    /\ pc = "fatal"
    /\ failedAt = "numstat_out"
    /\ out = <<<<"'","A","'">>, <<"1","\t","2","\t","f">>,
               <<"1","\t","x">>, <<"'">>>>
    /\ lineChangesMap = EmptyMap

(***************************************************************************)
(* C12: when mapAuthorCommits reads a line whose first field is not an     *)
(* integer, it returns an error and no map, however many lines with a      *)
(* count stand before that line: their entries are not returned.           *)
(***************************************************************************)
\* a line whose first field is an integer
CountLine(l) == Fields(l) # <<>> /\ IsIntegerToken(Fields(l)[1])

\* a line whose first field is no integer
BadCountLine(l) == Fields(l) # <<>> /\ ~IsIntegerToken(Fields(l)[1])

\* C12: lines with a count, then a line whose first field is no integer:
\* the call fails with the error return and no map, whatever follows
Thm_C12 ==
    \A i \in 1..Len(out) :
        (/\ pc \in {"have_commits", "fatal", "panic"}
         /\ failedAt \in {"", "shortlog_out"}
         /\ BadCountLine(out[i])
         /\ \A j \in 1..(i - 1) : CountLine(out[j])) =>
            /\ pc = "fatal"
            /\ failedAt = "shortlog_out"
            /\ commitMap = EmptyMap
            /\ mapAuthorCommits(out) = Error
            /\ mapAuthorCommits(SubSeq(out, 1, i)) = Error

\* an entry for A, then a first field that is no integer, then a line on
\* which the parser would panic
W_C12 ==
    /\ pc = "fatal"
    /\ failedAt = "shortlog_out"
    /\ out = <<<<"1"," ","A">>, <<"x"," ","A">>, <<>>>>
    /\ commitMap = EmptyMap

NonNegativeCommits(m) == \A k \in DOMAIN m : m[k] >= 0

NonNegativeChanges(m) ==
    \A k \in DOMAIN m : m[k].Additions >= 0 /\ m[k].Deletions >= 0

\* C14: no returned map, and no map after a line read on the way to it,
\* holds a negative count
CE_C14 ==
    /\ pc = "have_commits" =>
           /\ NonNegativeCommits(commitMap)
           /\ \A n \in 0..Len(out) :
                  NonNegativeCommits(
                      CommitsLoop(EmptyMap, SubSeq(out, 1, n)).val)
    /\ pc = "have_lines" =>
           /\ NonNegativeChanges(lineChangesMap)
           /\ \A n \in 0..Len(out) :
                  NonNegativeChanges(
                      ParseLoop(Parser(EmptyMap, <<>>),
                                SubSeq(out, 1, n)).val.authorMap)

(***************************************************************************)
(* C15: parseLineChanges, on a header line (not blank, a letter or an      *)
(* apostrophe first, of any length): the current author becomes the line   *)
(* without its first and last character when both are single quotes, the   *)
(* trimmed line otherwise, and is a key of the map.                        *)
(***************************************************************************)
\* the author the claim names for the trimmed header line t
ClaimedAuthor(t) ==
    IF t[1] = "'" /\ t[Len(t)] = "'" THEN SubSeq(t, 2, Len(t) - 1) ELSE t

\* C15: every header line that is reached is read without failure, and
\* after it the current author is the claimed one and a key of the map
CE_C15 ==
    \A i \in 1..Len(out) :
        (/\ pc \in {"have_lines", "fatal", "panic"}
         /\ failedAt \in {"", "numstat_out"}
         /\ IsHeaderLine(out[i])
         /\ ReadsPrefix(out, i - 1)) =>
            LET r == ParseLoop(Parser(EmptyMap, <<>>), SubSeq(out, 1, i))
            IN  /\ r.status = "ok"
                /\ r.val.currentAuthor = ClaimedAuthor(TrimSpace(out[i]))
                /\ r.val.currentAuthor \in DOMAIN r.val.authorMap
                /\ (i = Len(out)) => pc = "have_lines"

(***************************************************************************)
(* C16: a blank line, empty or of white space only, changes nothing in     *)
(* parseLineChanges: the current author and the map are after it what they *)
(* were before it, and a text gives the result of the same text without    *)
(* its blank lines.                                                        *)
(***************************************************************************)
NotBlank(l) == ~IsBlankLine(l)

WithoutBlanks(text) == SelectSeq(text, NotBlank)

\* how the call on the text of this state ended
Outcome ==
    IF pc = "have_lines" THEN "ok"
    ELSE IF pc = "fatal" THEN "error" ELSE "panic"

\* C16: the call ends as the call on the text without its blank lines ends,
\* with the same map; and the state of the loop after a blank line is its
\* state before the line
Thm_C16 ==
    (pc \in {"have_lines", "fatal", "panic"}
        /\ failedAt \in {"", "numstat_out"}) =>
        /\ parseLineChanges(WithoutBlanks(out)).status = Outcome
        /\ pc = "have_lines" =>
               lineChangesMap = parseLineChanges(WithoutBlanks(out)).val
        /\ \A i \in 1..Len(out) :
               (IsBlankLine(out[i]) /\ ReadsPrefix(out, i - 1)) =>
                   ParseLoop(Parser(EmptyMap, <<>>), SubSeq(out, 1, i))
                       = ParseLoop(Parser(EmptyMap, <<>>),
                                   SubSeq(out, 1, i - 1))

\* a line of white space between the header of A and A's counts, an empty
\* line after them
W_C16 ==
    /\ pc = "have_lines"
    /\ out = <<<<"'","A","'">>, <<" ","\t">>,
               <<"1","\t","2","\t","f">>, <<>>>>
    /\ lineChangesMap = (<<"A">> :> LineChanges(1, 2))

(***************************************************************************)
(* C17: the rows of one call agree with the totals of that call, whatever  *)
(* git log --numstat prints each time the call runs it: the authors of the *)
(* rows are the authors whose ratios were computed, and the line ratio of  *)
(* a row is the row's additions + deletions over the total line sum.       *)
(***************************************************************************)
\* C17: stated for a call whose total line sum is not zero (the case of a
\* zero total is C7's)
CE_C17 ==
    (pc = "done" /\ branch # <<>> /\ lineTotal # 0) =>
        /\ RowAuthors = DOMAIN lineRatioMap
        /\ \A r \in stdout.rows :
               IsFraction(r.lineRatio, r.additions + r.deletions, lineTotal)

=============================================================================
